---- MODULE Spec2Model ----
(***************************************************************************)
(* Connect "agent status" resource of terraform-provider-aws-ext.          *)
(*                                                                         *)
(* Two implementations of the same resource are modelled: the legacy       *)
(* plugin-SDK handlers (resourceAgentStatusCreate/Read/Update, no-op       *)
(* delete) and the plugin-framework handlers (AgentStatusResource.Create/  *)
(* Read/Update/Delete), both talking to one model of the remote Connect    *)
(* service.  The identifier codec (AgentStatusParseID) is modelled on      *)
(* character sequences and exercised by its own specification SpecCodec.   *)
(***************************************************************************)
EXTENDS Integers, Sequences, FiniteSets, TLC

VARIABLES
  variant,   \* which implementation is registered: "legacy" or "framework"
  cfg,       \* the resource block of the configuration
  remote,    \* the Connect service: entity number -> entity or Absent
  nextId,    \* number of entities the service has created so far
  st,        \* framework: persisted AgentStatusResourceModel, or Null
  identity,  \* framework: persisted AgentStatusResourceIdentityModel, or NullIdentity
  d,         \* legacy: persisted schema.ResourceData
  last,      \* the handler that ran last: its API calls and diagnostics
  steps,     \* number of handler invocations so far
  codec,     \* identifier codec under test (SpecCodec)
  earlier    \* history: the framework Create (and Delete) that came before

vars == <<variant, cfg, remote, nextId, st, identity, d, last, steps, codec, earlier>>

----------------------------------------------------------------------------
(* Bounds *)

\* longest instance_id / agent_status_id part fed to the codec
MaxPart == 2
\* longest raw identifier fed to AgentStatusParseID
MaxIdLen == 4
\* most entities the remote service ever creates
MaxEntities == 2
\* most handler invocations in one behaviour
MaxOps == 4
\* entities per ListAgentStatuses page
PageSize == 1
\* largest display_order written in a configuration
MaxOrder == 2
\* longest identifier handed to the legacy importer
MaxImportLen == 3

----------------------------------------------------------------------------
(* Strings are sequences of characters *)

Colon == ":"
CodecAlphabet == {"a", "b", Colon}

Str(S, n) == UNION {[1..k -> S] : k \in 0..n}

HasColon(s) == \E k \in 1..Len(s) : s[k] = Colon

\* variant: strings.Split without the limit of two parts
SplitScan_NoLimit(s, k) ==
  LET colons == {j \in 1..Len(s) : s[j] = Colon} IN
  IF colons = {} THEN <<s>>
  ELSE LET c == CHOOSE j \in colons : \A m \in colons : j <= m
           rest == SubSeq(s, c + 1, Len(s))
       IN IF Cardinality(colons) = 1 THEN <<SubSeq(s, 1, c - 1), rest>>
          ELSE <<SubSeq(s, 1, c - 1), rest, rest>>

\* strings.SplitN(id, ":", 2): scan for the first separator; no separator
\* gives the one-element slice holding the whole string.
RECURSIVE SplitScan(_, _)
SplitScan(s, k) ==
  IF k > Len(s) THEN <<s>>
  ELSE IF s[k] = Colon THEN <<SubSeq(s, 1, k - 1), SubSeq(s, k + 1, Len(s))>>
  ELSE SplitScan(s, k + 1)

SplitN2(s) == SplitScan(s, 1)

\* variant: the two parts returned in the wrong order
AgentStatusParseID_Swapped(id) ==
  LET parts == SplitN2(id) IN
  IF Len(parts) # 2 \/ parts[1] = <<>> \/ parts[2] = <<>>
    THEN [err |-> TRUE, instanceID |-> <<>>, agentStatusID |-> <<>>]
    ELSE [err |-> FALSE, instanceID |-> parts[2], agentStatusID |-> parts[1]]

\* variant: only the number of parts is tested, not that both are non-empty
AgentStatusParseID_Lenient(id) ==
  LET parts == SplitN2(id) IN
  IF Len(parts) # 2
    THEN [err |-> TRUE, instanceID |-> <<>>, agentStatusID |-> <<>>]
    ELSE [err |-> FALSE, instanceID |-> parts[1], agentStatusID |-> parts[2]]

AgentStatusParseID(id) ==
  LET parts == SplitN2(id) IN
  IF Len(parts) # 2 \/ parts[1] = <<>> \/ parts[2] = <<>>
    THEN [err |-> TRUE, instanceID |-> <<>>, agentStatusID |-> <<>>]
    ELSE [err |-> FALSE, instanceID |-> parts[1], agentStatusID |-> parts[2]]

\* fmt.Sprintf("%s:%s", instanceID, agentStatusId)
SprintfID(instanceID, agentStatusID) == instanceID \o <<Colon>> \o agentStatusID

\* codec under test: nothing parsed yet / not in use
NoParse == [err |-> FALSE, instanceID |-> <<"?">>, agentStatusID |-> <<"?">>]

CodecIdle == [pc |-> "idle", i |-> <<>>, a |-> <<>>, id |-> <<>>, out |-> NoParse]

----------------------------------------------------------------------------
(* Values *)

\* no persisted record / no persisted identity / no such entity
Null ==
  [Arn |-> <<>>, Description |-> "", AgentStatusID |-> <<>>, InstanceID |-> <<>>,
   Name |-> "", State |-> "", DisplayOrder |-> 0]
NullIdentity == [Arn |-> <<>>, AgentStatusID |-> <<>>]
Absent ==
  [instance |-> <<>>, name |-> "", description |-> "", state |-> "",
   displayOrder |-> 0]
\* no Create to remember
NoEarlier ==
  [phase |-> "none", id |-> <<>>, instance |-> <<>>, name |-> "", scanned |-> FALSE]
NilToken == 0       \* a nil *string continuation cursor
NullOrder == 0      \* a nil *int32 display order / display_order not configured
DefaultDisplayOrder == 1

Enabled == "ENABLED"
Disabled == "DISABLED"

Instances == {<<"i">>, <<"j">>}
Names == {"n", "N"}
Descriptions == {"", "x"}
States == {Enabled, Disabled}
Orders == 1..MaxOrder
ImportOnExistsValues == {"null", "true", "false"}

EntityNums == 1..MaxEntities

IdChars == <<"a", "b", "c", "d", "e", "f">>
\* the AgentStatusId and the AgentStatusARN the service assigns to its n-th entity
AgentStatusIdOf(n) == <<IdChars[n]>>
ArnOf(n) == <<"r", IdChars[n]>>

Min(a, b) == IF a < b THEN a ELSE b

----------------------------------------------------------------------------
(* Configuration and plan *)

Configs ==
  [instance_id : Instances, name : Names, description : Descriptions,
   state : States, display_order : {NullOrder} \cup Orders,
   import_on_exists : ImportOnExistsValues]

\* the legacy schema has neither display_order nor import_on_exists
LegacyConfigs ==
  {c \in Configs : c.display_order = NullOrder /\ c.import_on_exists = "null"}

ConfigsOf(v) == IF v = "legacy" THEN LegacyConfigs ELSE Configs

BaseConfig ==
  [instance_id |-> <<"i">>, name |-> "n", description |-> "", state |-> Enabled,
   display_order |-> NullOrder, import_on_exists |-> "null"]

\* Schema defaults: description "" and display_order 1 when not configured;
\* arn and agent_status_id keep the prior state's value (UseStateForUnknown).
PlanOf(c, prior) ==
  [Arn |-> IF prior = Null THEN <<>> ELSE prior.Arn,
   Description |-> c.description,
   AgentStatusID |-> IF prior = Null THEN <<>> ELSE prior.AgentStatusID,
   InstanceID |-> c.instance_id,
   Name |-> c.name,
   State |-> c.state,
   DisplayOrder |-> IF c.display_order = NullOrder THEN DefaultDisplayOrder
                    ELSE c.display_order]

----------------------------------------------------------------------------
(* API calls and the remote service *)

Call(api, inst, id, name, desc, state, order, token) ==
  [api |-> api, InstanceId |-> inst, AgentStatusId |-> id, Name |-> name,
   Description |-> desc, State |-> state, DisplayOrder |-> order,
   NextToken |-> token, result |-> "ok"]

\* the call together with what the service answered
Answer(call, res) == [call EXCEPT !.result = res]

Exists(r, n) == n \in EntityNums /\ r[n] # Absent

\* the entity number a (InstanceId, AgentStatusId) pair addresses, 0 if none
Lookup(r, inst, id) ==
  IF \E n \in EntityNums : Exists(r, n) /\ AgentStatusIdOf(n) = id /\ r[n].instance = inst
    THEN CHOOSE n \in EntityNums :
           Exists(r, n) /\ AgentStatusIdOf(n) = id /\ r[n].instance = inst
    ELSE 0

\* entity numbers of an instance, in the service's listing order
RECURSIVE ListingFrom(_, _, _)
ListingFrom(r, inst, n) ==
  IF n > MaxEntities THEN <<>>
  ELSE IF Exists(r, n) /\ r[n].instance = inst
    THEN <<n>> \o ListingFrom(r, inst, n + 1)
    ELSE ListingFrom(r, inst, n + 1)

\* ListAgentStatuses: one page and the cursor of the next, NilToken at the end
ListAgentStatuses(r, inst, token) ==
  LET all == ListingFrom(r, inst, 1)
      from == IF token = NilToken THEN 1 ELSE token
      to == Min(from + PageSize - 1, Len(all))
  IN [AgentStatusSummaryList |-> SubSeq(all, from, to),
      NextToken |-> IF to < Len(all) THEN to + 1 ELSE NilToken]

\* the entity CreateAgentStatus stores for an input
CreatedEntity(input) ==
  [instance |-> input.InstanceId, name |-> input.Name,
   description |-> input.Description, state |-> input.State,
   displayOrder |-> input.DisplayOrder]

\* the entity UpdateAgentStatus leaves: a field absent from the input is kept
UpdatedEntity(e, input) ==
  [e EXCEPT !.name = input.Name, !.description = input.Description,
            !.state = input.State,
            !.displayOrder = IF input.DisplayOrder = NullOrder THEN @
                             ELSE input.DisplayOrder]

----------------------------------------------------------------------------
(* Framework resource: AgentStatusResource *)

CreateInput(data) ==
  Call("CreateAgentStatus", data.InstanceID, <<>>, data.Name, data.Description,
       data.State,
       IF data.State = Enabled THEN data.DisplayOrder ELSE NullOrder, NilToken)

\* variant: display order sent whatever the state
UpdateInput_AlwaysOrder(data) ==
  Call("UpdateAgentStatus", data.InstanceID, data.AgentStatusID, data.Name,
       data.Description, data.State, data.DisplayOrder, NilToken)

UpdateInput(data) ==
  Call("UpdateAgentStatus", data.InstanceID, data.AgentStatusID, data.Name,
       data.Description, data.State,
       IF data.State = Enabled THEN data.DisplayOrder ELSE NullOrder, NilToken)

ListInput(data, token) ==
  Call("ListAgentStatuses", data.InstanceID, <<>>, "", "", "", NullOrder, token)

DescribeInput(inst, id) ==
  Call("DescribeAgentStatus", inst, id, "", "", "", NullOrder, NilToken)

\* variant: the flag's value is never looked at
ImportRequested_Always(c) == TRUE

\* variant: an unset flag taken for false
ImportRequested_OnlyTrue(c) == c.import_on_exists = "true"

\* importOnExists.IsNull() || importOnExists.IsUnknown() || importOnExists.ValueBool()
ImportRequested(c) == c.import_on_exists \in {"null", "true"}

\* variant: inverted name comparison
RECURSIVE FirstMatch_Inverted(_, _, _, _)
FirstMatch_Inverted(r, page, name, k) ==
  IF k > Len(page) THEN 0
  ELSE IF r[page[k]].name # name THEN page[k]
  ELSE FirstMatch_Inverted(r, page, name, k + 1)

\* first entry of a page whose name equals the planned name, 0 if none
RECURSIVE FirstMatch(_, _, _, _)
FirstMatch(r, page, name, k) ==
  IF k > Len(page) THEN 0
  ELSE IF r[page[k]].name = name THEN page[k]
  ELSE FirstMatch(r, page, name, k + 1)

\* variant: the continuation cursor is never followed
ImportScan_FirstPageOnly(r, data, token, n, failAt, calls) ==
  IF n = failAt
    THEN [outcome |-> "listErr", match |-> 0,
          calls |-> Append(calls, Answer(ListInput(data, token), "err"))]
  ELSE
    LET listResponse == ListAgentStatuses(r, data.InstanceID, token)
        m == FirstMatch(r, listResponse.AgentStatusSummaryList, data.Name, 1)
    IN [outcome |-> IF m # 0 THEN "match" ELSE "noMatch", match |-> m,
        calls |-> Append(calls, ListInput(data, token))]

\* The import loop of Create: list call number n with cursor token; failAt is
\* the number of the list call that fails (0: none does).
RECURSIVE ImportScan(_, _, _, _, _, _)
ImportScan(r, data, token, n, failAt, calls) ==
  LET issued == Append(calls, ListInput(data, token)) IN
  IF n = failAt
    THEN [outcome |-> "listErr", match |-> 0,
          calls |-> Append(calls, Answer(ListInput(data, token), "err"))]
  ELSE
    LET listResponse == ListAgentStatuses(r, data.InstanceID, token)
        m == FirstMatch(r, listResponse.AgentStatusSummaryList, data.Name, 1)
    IN IF m # 0 THEN [outcome |-> "match", match |-> m, calls |-> issued]
       ELSE IF listResponse.NextToken = NilToken
         THEN [outcome |-> "noMatch", match |-> 0, calls |-> issued]
         ELSE ImportScan(r, data, listResponse.NextToken, n + 1, failAt, issued)

IdentityOf(data) == [Arn |-> data.Arn, AgentStatusID |-> data.AgentStatusID]

\* updateAgentStatus against the service: the call, and the service's state
\* after it. The service can only succeed for an entity it has.
UpdateCanSucceed(r, input) == Lookup(r, input.InstanceId, input.AgentStatusId) # 0

RemoteAfterUpdate(r, input) ==
  LET n == Lookup(r, input.InstanceId, input.AgentStatusId) IN
  [r EXCEPT ![n] = UpdatedEntity(r[n], input)]

\* variant: return on the update error before the record is saved
StateAfterAdopt_OnlyIfUpdated(adopted, updated) == IF updated THEN adopted ELSE Null

\* the record saved on the adopt path: saved whether or not the update worked
StateAfterAdopt(adopted, updated) == adopted

Create ==
  /\ variant = "framework" /\ st = Null /\ steps < MaxOps
  /\ \E failAt \in 0..MaxEntities, createRes \in {"ok", "err", "nil"},
        updateOk \in BOOLEAN :
       LET data == PlanOf(cfg, Null)
           input == CreateInput(data)
           scan == IF ImportRequested(cfg)
                     THEN ImportScan(remote, data, NilToken, 1, failAt, <<>>)
                     ELSE [outcome |-> "skipped", match |-> 0, calls |-> <<>>]
       IN
       IF scan.outcome = "match"
         THEN \* adopt the entity and update it
           LET adopted == [data EXCEPT !.AgentStatusID = AgentStatusIdOf(scan.match),
                                       !.Arn = ArnOf(scan.match)]
               upd == UpdateInput(adopted)
               ok == updateOk /\ UpdateCanSucceed(remote, upd)
           IN /\ remote' = IF ok THEN RemoteAfterUpdate(remote, upd) ELSE remote
              /\ nextId' = nextId
              /\ st' = StateAfterAdopt(adopted, ok)
              /\ identity' = IdentityOf(StateAfterAdopt(adopted, ok))
              /\ last' = [op |-> "Create",
                          diags |-> IF ok THEN <<>> ELSE <<"update">>,
                          calls |-> Append(scan.calls,
                                           Answer(upd, IF ok THEN "ok" ELSE "err"))]
         ELSE \* a list error breaks out of the loop only; the create call follows
           LET listDiags == IF scan.outcome = "listErr" THEN <<"list">> ELSE <<>>
               created == createRes # "err" /\ nextId < MaxEntities
               calls == Append(scan.calls,
                               Answer(input, IF created THEN createRes ELSE "err"))
               n == nextId + 1
               fresh == [data EXCEPT !.AgentStatusID = AgentStatusIdOf(n),
                                     !.Arn = ArnOf(n)]
           IN /\ remote' = IF created THEN [remote EXCEPT ![n] = CreatedEntity(input)]
                           ELSE remote
              /\ nextId' = IF created THEN n ELSE nextId
              /\ IF created /\ createRes = "ok"
                   THEN /\ st' = fresh
                        /\ identity' = IdentityOf(fresh)
                        /\ last' = [op |-> "Create", diags |-> listDiags, calls |-> calls]
                   ELSE /\ UNCHANGED <<st, identity>>
                        /\ last' = [op |-> "Create",
                                    diags |-> Append(listDiags,
                                                IF created THEN "panic" ELSE "create"),
                                    calls |-> calls]
  /\ earlier' = IF st' = Null THEN NoEarlier
                ELSE [phase |-> "created", id |-> st'.AgentStatusID,
                      instance |-> cfg.instance_id, name |-> cfg.name,
                      scanned |-> /\ cfg.import_on_exists \in {"null", "true"}
                                  /\ \A k \in DOMAIN last'.calls :
                                       last'.calls[k].api = "ListAgentStatuses"
                                         => last'.calls[k].result = "ok"]
  /\ steps' = steps + 1
  /\ UNCHANGED <<variant, cfg, d, codec>>

\* what DescribeAgentStatus can answer for an entity the service has or lacks
DescribeResults(r, inst, id) ==
  IF Lookup(r, inst, id) # 0 THEN {"ok", "err", "nil"} ELSE {"notFound", "err"}

\* variant: display order copied from the response unconditionally
RefreshedDisplayOrder_Always(prior, e) == e.displayOrder

\* display order is taken from the response only for an ENABLED entity that
\* carries one
RefreshedDisplayOrder(prior, e) ==
  IF e.state = Enabled /\ e.displayOrder # NullOrder THEN e.displayOrder ELSE prior

Read ==
  /\ variant = "framework" /\ st # Null /\ steps < MaxOps
  /\ \E res \in DescribeResults(remote, st.InstanceID, st.AgentStatusID) :
       LET input == Answer(DescribeInput(st.InstanceID, st.AgentStatusID), res)
           n == Lookup(remote, st.InstanceID, st.AgentStatusID)
       IN
       /\ IF res \in {"err", "notFound"}
            THEN /\ UNCHANGED <<st, identity>>
                 /\ last' = [op |-> "Read", diags |-> <<"read">>, calls |-> <<input>>]
            ELSE IF res = "nil"
            THEN /\ st' = Null
                 /\ identity' = NullIdentity
                 /\ last' = [op |-> "Read", diags |-> <<>>, calls |-> <<input>>]
            ELSE /\ st' = [st EXCEPT
                             !.AgentStatusID = AgentStatusIdOf(n),
                             !.Arn = ArnOf(n),
                             !.Description = remote[n].description,
                             !.Name = remote[n].name,
                             !.State = remote[n].state,
                             !.DisplayOrder = RefreshedDisplayOrder(@, remote[n])]
                 /\ identity' = identity
                 /\ last' = [op |-> "Read", diags |-> <<>>, calls |-> <<input>>]
  /\ steps' = steps + 1
  /\ earlier' = NoEarlier
  /\ UNCHANGED <<variant, cfg, remote, nextId, d, codec>>

Update ==
  /\ variant = "framework" /\ st # Null /\ steps < MaxOps
  /\ \E updateOk \in BOOLEAN :
       LET data == PlanOf(cfg, st)
           upd == UpdateInput(data)
           ok == updateOk /\ UpdateCanSucceed(remote, upd)
       IN /\ remote' = IF ok THEN RemoteAfterUpdate(remote, upd) ELSE remote
          /\ st' = IF ok THEN data ELSE st
          /\ last' = [op |-> "Update",
                      diags |-> IF ok THEN <<>> ELSE <<"update">>,
                      calls |-> <<Answer(upd, IF ok THEN "ok" ELSE "err")>>]
  /\ steps' = steps + 1
  /\ earlier' = NoEarlier
  /\ UNCHANGED <<variant, cfg, nextId, identity, d, codec>>

\* variant: the commented-out DeleteAgentStatus call brought back
Delete_CallsService ==
  /\ variant = "framework" /\ st # Null /\ steps < MaxOps
  /\ LET n == Lookup(remote, st.InstanceID, st.AgentStatusID) IN
       remote' = IF n = 0 THEN remote ELSE [remote EXCEPT ![n] = Absent]
  /\ st' = Null
  /\ identity' = NullIdentity
  /\ last' = [op |-> "Delete", diags |-> <<>>, calls |-> <<>>]
  /\ earlier' = IF earlier.phase = "created"
                  THEN [earlier EXCEPT !.phase = "deleted"] ELSE NoEarlier
  /\ steps' = steps + 1
  /\ UNCHANGED <<variant, cfg, nextId, d, codec>>

\* Delete makes no call; the host then forgets the record.
Delete ==
  /\ variant = "framework" /\ st # Null /\ steps < MaxOps
  /\ st' = Null
  /\ identity' = NullIdentity
  /\ last' = [op |-> "Delete", diags |-> <<>>, calls |-> <<>>]
  /\ earlier' = IF earlier.phase = "created"
                  THEN [earlier EXCEPT !.phase = "deleted"] ELSE NoEarlier
  /\ steps' = steps + 1
  /\ UNCHANGED <<variant, cfg, remote, nextId, d, codec>>

----------------------------------------------------------------------------
(* Legacy resource: ResourceAgentStatus *)

NoData ==
  [id |-> <<>>, arn |-> <<>>, agent_status_id |-> <<>>, instance_id |-> <<>>,
   name |-> "", description |-> "", state |-> ""]

\* the ResourceData a handler sees: the stored record with the configured
\* attributes laid over it
WithConfig(dd, c) ==
  [dd EXCEPT !.instance_id = c.instance_id, !.name = c.name,
             !.description = c.description, !.state = c.state]

\* the SDK keeps a record only while its id is non-empty
Persist(dd) == IF dd.id = <<>> THEN NoData ELSE dd

\* variant: the new-resource test left out
DropOnNotFound_IgnoresNew(isNew, res) == res = "notFound"

\* !d.IsNewResource() && tfresource.NotFound(err)
DropOnNotFound(isNew, res) == ~isNew /\ res = "notFound"

resourceAgentStatusRead(r, dd, isNew, res) ==
  LET parsed == AgentStatusParseID(dd.id) IN
  IF parsed.err THEN [d |-> dd, diags |-> <<"parse">>, calls |-> <<>>]
  ELSE
    LET input == Answer(DescribeInput(parsed.instanceID, parsed.agentStatusID), res)
        n == Lookup(r, parsed.instanceID, parsed.agentStatusID)
    IN IF DropOnNotFound(isNew, res)
         THEN [d |-> [dd EXCEPT !.id = <<>>], diags |-> <<>>, calls |-> <<input>>]
       ELSE IF res \in {"err", "notFound"}
         THEN [d |-> dd, diags |-> <<"read">>, calls |-> <<input>>]
       ELSE IF res = "nil"
         THEN [d |-> dd, diags |-> <<"readEmpty">>, calls |-> <<input>>]
       ELSE [d |-> [dd EXCEPT !.arn = ArnOf(n),
                              !.agent_status_id = AgentStatusIdOf(n),
                              !.instance_id = parsed.instanceID,
                              !.description = r[n].description,
                              !.name = r[n].name,
                              !.state = r[n].state],
             diags |-> <<>>, calls |-> <<input>>]

\* what Describe can answer for the record's id (any answer if it is malformed:
\* no call is made then)
ReadResults(r, dd) ==
  LET parsed == AgentStatusParseID(dd.id) IN
  IF parsed.err THEN {"err"}
  ELSE DescribeResults(r, parsed.instanceID, parsed.agentStatusID)

resourceAgentStatusCreate ==
  /\ variant = "legacy" /\ d.id = <<>> /\ steps < MaxOps
  /\ \E createRes \in {"ok", "err", "nil"} :
       LET dd == WithConfig(NoData, cfg)
           created == createRes # "err" /\ nextId < MaxEntities
           input == Answer(Call("CreateAgentStatus", dd.instance_id, <<>>, dd.name,
                                dd.description, dd.state, NullOrder, NilToken),
                           IF created THEN createRes ELSE "err")
           n == nextId + 1
           r2 == IF created THEN [remote EXCEPT ![n] = CreatedEntity(input)] ELSE remote
       IN
       /\ remote' = r2
       /\ nextId' = IF created THEN n ELSE nextId
       /\ IF ~created
            THEN /\ d' = NoData
                 /\ last' = [op |-> "Create", diags |-> <<"create">>, calls |-> <<input>>]
          ELSE IF createRes = "nil"
            THEN /\ d' = NoData
                 /\ last' = [op |-> "Create", diags |-> <<"createEmpty">>,
                             calls |-> <<input>>]
          ELSE
            LET keyed == [dd EXCEPT !.id = SprintfID(dd.instance_id, AgentStatusIdOf(n))]
            IN \* the new entity may not be visible to Describe yet
               \E res \in ReadResults(r2, keyed) \cup {"notFound"} :
                 LET rd == resourceAgentStatusRead(r2, keyed, TRUE, res) IN
                 /\ d' = Persist(rd.d)
                 /\ last' = [op |-> "Create", diags |-> rd.diags,
                             calls |-> <<input>> \o rd.calls]
  /\ steps' = steps + 1
  /\ earlier' = NoEarlier
  /\ UNCHANGED <<variant, cfg, st, identity, codec>>

LegacyRead ==
  /\ variant = "legacy" /\ d.id # <<>> /\ steps < MaxOps
  /\ \E res \in ReadResults(remote, d) :
       LET rd == resourceAgentStatusRead(remote, d, FALSE, res) IN
       /\ d' = Persist(rd.d)
       /\ last' = [op |-> "Read", diags |-> rd.diags, calls |-> rd.calls]
  /\ steps' = steps + 1
  /\ earlier' = NoEarlier
  /\ UNCHANGED <<variant, cfg, remote, nextId, st, identity, codec>>

\* variant: instance_id counted among the attributes that trigger the call
HasChanges_AnyAttribute(dd, c) ==
  \/ dd.name # c.name \/ dd.description # c.description \/ dd.state # c.state
  \/ dd.instance_id # c.instance_id

\* d.HasChanges(name, description, state)
HasChanges(dd, c) ==
  dd.name # c.name \/ dd.description # c.description \/ dd.state # c.state

resourceAgentStatusUpdate ==
  /\ variant = "legacy" /\ d.id # <<>> /\ steps < MaxOps
  /\ \E updateOk \in BOOLEAN :
       LET parsed == AgentStatusParseID(d.id)
           dd == WithConfig(d, cfg)
           upd == Call("UpdateAgentStatus", parsed.instanceID, parsed.agentStatusID,
                       dd.name, dd.description, dd.state, NullOrder, NilToken)
           changed == HasChanges(d, cfg)
           ok == updateOk /\ UpdateCanSucceed(remote, upd)
           r2 == IF changed /\ ok THEN RemoteAfterUpdate(remote, upd) ELSE remote
       IN
       IF parsed.err
         THEN /\ UNCHANGED <<d, remote>>
              /\ last' = [op |-> "Update", diags |-> <<"parse">>, calls |-> <<>>]
       ELSE IF changed /\ ~ok
         THEN /\ UNCHANGED <<d, remote>>
              /\ last' = [op |-> "Update", diags |-> <<"update">>,
                          calls |-> <<Answer(upd, "err")>>]
       ELSE
         /\ remote' = r2
         \* the closing Read overwrites every configured attribute when it
         \* succeeds and sets none when it fails
         /\ \E res \in ReadResults(r2, d) :
              LET rd == resourceAgentStatusRead(r2, d, FALSE, res) IN
              /\ d' = Persist(rd.d)
              /\ last' = [op |-> "Update", diags |-> rd.diags,
                          calls |-> (IF changed THEN <<upd>> ELSE <<>>) \o rd.calls]
  /\ steps' = steps + 1
  /\ earlier' = NoEarlier
  /\ UNCHANGED <<variant, cfg, nextId, st, identity, codec>>

\* DeleteContext: schema.NoopContext; the SDK then clears the record
LegacyDelete ==
  /\ variant = "legacy" /\ d.id # <<>> /\ steps < MaxOps
  /\ d' = NoData
  /\ last' = [op |-> "Delete", diags |-> <<>>, calls |-> <<>>]
  /\ steps' = steps + 1
  /\ earlier' = NoEarlier
  /\ UNCHANGED <<variant, cfg, remote, nextId, st, identity, codec>>

ImportAlphabet == {"i", "a", Colon}

\* Importer: schema.ImportStatePassthroughContext stores the given id
LegacyImport ==
  /\ variant = "legacy" /\ d.id = <<>> /\ steps < MaxOps
  /\ \E id \in Str(ImportAlphabet, MaxImportLen) \ {<<>>} :
       d' = [NoData EXCEPT !.id = id]
  /\ last' = [op |-> "Import", diags |-> <<>>, calls |-> <<>>]
  /\ steps' = steps + 1
  /\ earlier' = NoEarlier
  /\ UNCHANGED <<variant, cfg, remote, nextId, st, identity, codec>>

----------------------------------------------------------------------------
(* Environment: the user edits the configuration; an entity is removed     *)
(* behind the provider's back                                              *)

EditConfig ==
  /\ steps < MaxOps
  /\ \E c \in ConfigsOf(variant) :
       /\ Cardinality({f \in DOMAIN c : c[f] # cfg[f]}) = 1
       /\ cfg' = c
  /\ last' = [op |-> "EditConfig", diags |-> <<>>, calls |-> <<>>]
  /\ steps' = steps + 1
  /\ UNCHANGED <<variant, remote, nextId, st, identity, d, codec, earlier>>

OutOfBandDelete ==
  /\ steps < MaxOps
  /\ \E n \in EntityNums :
       /\ Exists(remote, n)
       /\ remote' = [remote EXCEPT ![n] = Absent]
  /\ last' = [op |-> "OutOfBandDelete", diags |-> <<>>, calls |-> <<>>]
  /\ steps' = steps + 1
  /\ earlier' = NoEarlier
  /\ UNCHANGED <<variant, cfg, nextId, st, identity, d, codec>>

----------------------------------------------------------------------------
(* Specification *)

NoOp == [op |-> "none", diags |-> <<>>, calls |-> <<>>]

Init ==
  /\ variant \in {"legacy", "framework"}
  /\ cfg \in ConfigsOf(variant)
  /\ remote = [n \in EntityNums |-> Absent]
  /\ nextId = 0
  /\ st = Null
  /\ identity = NullIdentity
  /\ d = NoData
  /\ last = NoOp
  /\ steps = 0
  /\ codec = CodecIdle
  /\ earlier = NoEarlier

Next ==
  \/ Create
  \/ Read
  \/ Update
  \/ Delete
  \/ resourceAgentStatusCreate
  \/ LegacyRead
  \/ resourceAgentStatusUpdate
  \/ LegacyDelete
  \/ LegacyImport
  \/ EditConfig
  \/ OutOfBandDelete

Spec == Init /\ [][Next]_vars

----------------------------------------------------------------------------
(* The framework resource pointed at a service that already has entities   *)

\* entities made outside Terraform before the provider first runs
Existing ==
  [instance : Instances, name : Names, description : {"x"}, state : {Enabled},
   displayOrder : {DefaultDisplayOrder}]

\* configurations tried against them: no description, and display_order
\* either left to its default or set to another value
ExistingConfigs ==
  {c \in Configs : c.description = "" /\ c.display_order # DefaultDisplayOrder}

ExistingInit ==
  /\ variant = "framework"
  /\ cfg \in ExistingConfigs
  /\ \E k \in 0..MaxEntities :
       /\ nextId = k
       /\ \E es \in [1..k -> Existing] :
            remote = [n \in EntityNums |-> IF n <= k THEN es[n] ELSE Absent]
  /\ st = Null
  /\ identity = NullIdentity
  /\ d = NoData
  /\ last = NoOp
  /\ steps = 0
  /\ codec = CodecIdle
  /\ earlier = NoEarlier

ExistingNext ==
  \/ Create
  \/ Read
  \/ Update
  \/ Delete

SpecExisting == ExistingInit /\ [][ExistingNext]_vars

----------------------------------------------------------------------------
(* Codec specification: inputs drawn in Init, the codec applied by actions *)

CodecInit ==
  /\ \/ \E i \in Str(CodecAlphabet, MaxPart), a \in Str(CodecAlphabet, MaxPart) :
          codec = [pc |-> "pair", i |-> i, a |-> a, id |-> <<>>, out |-> NoParse]
     \/ \E id \in Str(CodecAlphabet, MaxIdLen) :
          codec = [pc |-> "raw", i |-> <<>>, a |-> <<>>, id |-> id, out |-> NoParse]
  /\ variant = "legacy"
  /\ cfg = BaseConfig
  /\ remote = [n \in EntityNums |-> Absent]
  /\ nextId = 0
  /\ st = Null
  /\ identity = NullIdentity
  /\ d = NoData
  /\ last = NoOp
  /\ steps = 0
  /\ earlier = NoEarlier

\* the key as resourceAgentStatusCreate builds it
CodecEncode ==
  /\ codec.pc = "pair"
  /\ codec' = [codec EXCEPT !.pc = "encoded", !.id = SprintfID(codec.i, codec.a)]
  /\ UNCHANGED <<variant, cfg, remote, nextId, st, identity, d, last, steps, earlier>>

\* the key as resourceAgentStatusRead parses it
CodecDecode ==
  /\ codec.pc \in {"encoded", "raw"}
  /\ codec' = [codec EXCEPT !.pc = IF codec.pc = "encoded" THEN "roundtrip" ELSE "decoded",
                            !.out = AgentStatusParseID(codec.id)]
  /\ UNCHANGED <<variant, cfg, remote, nextId, st, identity, d, last, steps, earlier>>

CodecNext == CodecEncode \/ CodecDecode

SpecCodec == CodecInit /\ [][CodecNext]_vars

----------------------------------------------------------------------------
(* Properties of the handlers *)

Count(calls, api) == Cardinality({k \in DOMAIN calls : calls[k].api = api})

\* some call to api in the log was answered with res
Answered(calls, api, res) ==
  \E k \in DOMAIN calls : calls[k].api = api /\ calls[k].result = res

HasDiag(l, kind) == \E k \in DOMAIN l.diags : l.diags[k] = kind

\* the step is one invocation of the named framework / legacy handler
FrameworkStep(op) == variant = "framework" /\ steps' = steps + 1 /\ last'.op = op
LegacyStep(op) == variant = "legacy" /\ steps' = steps + 1 /\ last'.op = op

\* entity n exists in the configured instance under the configured name
NamedAsConfigured(r, n) ==
  Exists(r, n) /\ r[n].instance = cfg.instance_id /\ r[n].name = cfg.name

\* C3: framework Create with import_on_exists true or unset, no failing list
\* call and an entity of the desired name already in the instance issues no
\* CreateAgentStatus call, persists that entity's id and arn, and, when the
\* update succeeds, leaves the entity with the desired name, description and
\* state.
C3_AdoptAndConverge ==
  [][(/\ FrameworkStep("Create")
      /\ ImportRequested(cfg)
      /\ ~Answered(last'.calls, "ListAgentStatuses", "err")
      /\ \E n \in EntityNums : NamedAsConfigured(remote, n))
     => /\ Count(last'.calls, "CreateAgentStatus") = 0
        /\ \E n \in EntityNums :
             /\ NamedAsConfigured(remote, n)
             /\ st'.AgentStatusID = AgentStatusIdOf(n)
             /\ st'.Arn = ArnOf(n)
             /\ ~HasDiag(last', "update") =>
                  /\ remote'[n].name = cfg.name
                  /\ remote'[n].description = cfg.description
                  /\ remote'[n].state = cfg.state]_vars

\* an adopting Create whose update changed the description of the entity: the
\* entity was created with description "x" and now carries the configured ""
C3_Witness ==
  /\ variant = "framework" /\ last.op = "Create" /\ last.diags = <<>>
  /\ Count(last.calls, "CreateAgentStatus") = 0
  /\ Answered(last.calls, "UpdateAgentStatus", "ok")
  /\ \E n \in EntityNums :
       /\ NamedAsConfigured(remote, n)
       /\ st.AgentStatusID = AgentStatusIdOf(n)
       /\ remote[n].description = cfg.description
       /\ remote[n].state = cfg.state

\* C4: framework Create with import_on_exists false issues no list and no
\* update call and exactly one create call, and what it persists is the id and
\* arn that call returned, not those of an entity that existed before.
C4_NoImportCreates ==
  [][(FrameworkStep("Create") /\ cfg.import_on_exists = "false")
     => /\ Count(last'.calls, "ListAgentStatuses") = 0
        /\ Count(last'.calls, "UpdateAgentStatus") = 0
        /\ Count(last'.calls, "CreateAgentStatus") = 1
        /\ st' # Null =>
             /\ Answered(last'.calls, "CreateAgentStatus", "ok")
             /\ nextId' = nextId + 1
             /\ st'.AgentStatusID = AgentStatusIdOf(nextId')
             /\ st'.Arn = ArnOf(nextId')
             /\ identity' = [Arn |-> ArnOf(nextId'),
                             AgentStatusID |-> AgentStatusIdOf(nextId')]
             /\ \A n \in EntityNums :
                  Exists(remote, n) => st'.AgentStatusID # AgentStatusIdOf(n)]_vars

\* a second entity of the same name in the same instance was created
C4_Witness ==
  /\ variant = "framework" /\ last.op = "Create" /\ cfg.import_on_exists = "false"
  /\ st # Null /\ last.diags = <<>>
  /\ \E n \in EntityNums :
       /\ NamedAsConfigured(remote, n)
       /\ st.AgentStatusID # AgentStatusIdOf(n)

\* C5: legacy Read answered not-found drops the record without an error when
\* the record is not new; the Read at the end of Create, answered not-found,
\* returns an error and keeps the id.
C5_LegacyReadNotFound ==
  [][/\ (LegacyStep("Read") /\ Answered(last'.calls, "DescribeAgentStatus", "notFound"))
          => (last'.diags = <<>> /\ d'.id = <<>>)
     /\ (LegacyStep("Create") /\ Answered(last'.calls, "DescribeAgentStatus", "notFound"))
          => /\ last'.diags # <<>>
             /\ d'.id = SprintfID(cfg.instance_id, AgentStatusIdOf(nextId'))]_vars

C5_Witness ==
  /\ variant = "legacy" /\ last.op = "Read"
  /\ Answered(last.calls, "DescribeAgentStatus", "notFound")
  /\ d = NoData /\ last.diags = <<>>

C5_WitnessNew ==
  /\ variant = "legacy" /\ last.op = "Create"
  /\ Answered(last.calls, "DescribeAgentStatus", "notFound")
  /\ d.id # <<>> /\ last.diags = <<"read">>

\* C6: framework Read answered not-found removes the record and reports no
\* error diagnostic.
C6_FrameworkReadNotFound ==
  (variant = "framework" /\ last.op = "Read"
     /\ Answered(last.calls, "DescribeAgentStatus", "notFound"))
  => (st = Null /\ last.diags = <<>>)

\* C7: every framework CreateAgentStatus and UpdateAgentStatus payload carries
\* display_order exactly when the desired state is ENABLED.
C7_DisplayOrderIffEnabled ==
  (variant = "framework" /\ last.op \in {"Create", "Update"}) =>
    \A k \in DOMAIN last.calls :
      last.calls[k].api \in {"CreateAgentStatus", "UpdateAgentStatus"} =>
        /\ last.calls[k].DisplayOrder # NullOrder <=> cfg.state = Enabled
        /\ last.calls[k].DisplayOrder # NullOrder =>
             last.calls[k].DisplayOrder = PlanOf(cfg, Null).DisplayOrder

\* an update to DISABLED with display_order 2 configured sent no display order
C7_Witness ==
  /\ variant = "framework" /\ last.op = "Update"
  /\ cfg.state = Disabled /\ cfg.display_order = 2
  /\ Answered(last.calls, "UpdateAgentStatus", "ok")
  /\ last.calls[1].DisplayOrder = NullOrder

C7_WitnessEnabled ==
  /\ variant = "framework" /\ last.op = "Create" /\ cfg.state = Enabled
  /\ cfg.display_order = 2
  /\ Answered(last.calls, "UpdateAgentStatus", "ok")
  /\ last.calls[Len(last.calls)].DisplayOrder = 2

\* C8: Delete, in both variants, issues no call, reports no error and leaves
\* the service as it was; no handler of either variant makes an entity of the
\* service disappear.
C8_DeleteIsNoop ==
  [][/\ (steps' = steps + 1 /\ last'.op = "Delete")
          => (last'.calls = <<>> /\ last'.diags = <<>> /\ remote' = remote)
     /\ (steps' = steps + 1
           /\ last'.op \in {"Create", "Read", "Update", "Delete", "Import"})
          => \A n \in EntityNums : Exists(remote, n) => Exists(remote', n)]_vars

\* after a Delete the record is gone and its entity is still there
C8_Witness ==
  /\ last.op = "Delete" /\ st = Null /\ d = NoData
  /\ \E n \in EntityNums : NamedAsConfigured(remote, n)

\* C9: framework Create calls CreateAgentStatus only with import_on_exists
\* false or after a scan in which every list call succeeded; after a failed
\* list call it ends with the list error only, has issued no create call and
\* has persisted nothing.
C9_ListErrorStopsCreate ==
  (variant = "framework" /\ last.op = "Create") =>
    /\ Count(last.calls, "CreateAgentStatus") > 0 =>
         \/ cfg.import_on_exists = "false"
         \/ ~Answered(last.calls, "ListAgentStatuses", "err")
    /\ Answered(last.calls, "ListAgentStatuses", "err") =>
         /\ last.diags = <<"list">>
         /\ Count(last.calls, "CreateAgentStatus") = 0
         /\ st = Null

\* C10: when the update of the adopt path fails, framework Create reports the
\* update error, has issued no create call, and still persists record and
\* identity with the adopted entity's id and arn.
C10_AdoptSurvivesUpdateError ==
  [][(FrameworkStep("Create") /\ Answered(last'.calls, "UpdateAgentStatus", "err"))
     => /\ last'.diags = <<"update">>
        /\ Count(last'.calls, "CreateAgentStatus") = 0
        /\ \E n \in EntityNums :
             /\ NamedAsConfigured(remote, n)
             /\ st' # Null
             /\ st'.AgentStatusID = AgentStatusIdOf(n) /\ st'.Arn = ArnOf(n)
             /\ identity' = [Arn |-> ArnOf(n), AgentStatusID |-> AgentStatusIdOf(n)]
             /\ remote' = remote]_vars

C10_Witness ==
  /\ variant = "framework" /\ last.op = "Create" /\ last.diags = <<"update">>
  /\ Answered(last.calls, "UpdateAgentStatus", "err")
  /\ st # Null /\ identity = IdentityOf(st)
  /\ \E n \in EntityNums : Exists(remote, n) /\ st.AgentStatusID = AgentStatusIdOf(n)

\* position of entity n in the listing of the configured instance
ListingPosition(r, n) ==
  Cardinality({m \in 1..n : Exists(r, m) /\ r[m].instance = cfg.instance_id})

PageOfPosition(k) == ((k - 1) \div PageSize) + 1

\* C11: the import scan of framework Create follows the cursor page by page:
\* it adopts the first entity, in listing order, whose name is exactly the
\* configured one, on whatever page it is, after one list call per page up to
\* that page; with no such entity it ends after the last page and creates.
C11_ScanFollowsCursor ==
  [][(/\ FrameworkStep("Create")
      /\ cfg.import_on_exists \in {"null", "true"}
      /\ ~Answered(last'.calls, "ListAgentStatuses", "err"))
     => LET named == {n \in EntityNums : NamedAsConfigured(remote, n)}
            inInstance == {n \in EntityNums :
                             Exists(remote, n) /\ remote[n].instance = cfg.instance_id}
            nList == Count(last'.calls, "ListAgentStatuses")
        IN /\ \A k \in 1..nList :
                /\ last'.calls[k].api = "ListAgentStatuses"
                /\ last'.calls[k].InstanceId = cfg.instance_id
                /\ last'.calls[k].NextToken =
                     IF k = 1 THEN NilToken ELSE (k - 1) * PageSize + 1
           /\ IF named # {}
                THEN LET first == CHOOSE n \in named : \A m \in named : n <= m IN
                     /\ st'.AgentStatusID = AgentStatusIdOf(first)
                     /\ st'.Arn = ArnOf(first)
                     /\ nList = PageOfPosition(ListingPosition(remote, first))
                     /\ Count(last'.calls, "CreateAgentStatus") = 0
                ELSE /\ nList = IF inInstance = {} THEN 1
                                ELSE PageOfPosition(Cardinality(inInstance))
                     /\ Count(last'.calls, "CreateAgentStatus") = 1]_vars

\* adopted from the second page, past an entity whose name differs in case only
C11_Witness ==
  /\ variant = "framework" /\ last.op = "Create"
  /\ Count(last.calls, "ListAgentStatuses") = 2
  /\ Count(last.calls, "CreateAgentStatus") = 0
  /\ cfg.name = "n" /\ st.AgentStatusID = AgentStatusIdOf(2)
  /\ Exists(remote, 1) /\ remote[1].instance = cfg.instance_id
  /\ remote[1].name = "N" /\ remote[2].name = "n"

\* two entities carry the name: the first in listing order is adopted
C11_WitnessFirst ==
  /\ variant = "framework" /\ last.op = "Create"
  /\ NamedAsConfigured(remote, 1) /\ NamedAsConfigured(remote, 2)
  /\ st.AgentStatusID = AgentStatusIdOf(1)
  /\ Count(last.calls, "ListAgentStatuses") = 1

\* name, description or state of the legacy record differs from the configuration
MutableDiffers == d.name # cfg.name \/ d.description # cfg.description \/ d.state # cfg.state

LastCallIs(calls, api) == calls # <<>> /\ calls[Len(calls)].api = api

\* every framework Update makes exactly one call, an UpdateAgentStatus
FrameworkUpdatesOnce ==
  FrameworkStep("Update") =>
    (Len(last'.calls) = 1 /\ Count(last'.calls, "UpdateAgentStatus") = 1)

\* C12 as stated: legacy Update calls UpdateAgentStatus exactly when name,
\* description or state differ from the record and always finishes with a
\* Read; framework Update makes exactly one UpdateAgentStatus call.
C12_AsStated ==
  [][/\ LegacyStep("Update") =>
          /\ Count(last'.calls, "UpdateAgentStatus") = (IF MutableDiffers THEN 1 ELSE 0)
          /\ Count(last'.calls, "DescribeAgentStatus") = 1
          /\ LastCallIs(last'.calls, "DescribeAgentStatus")
     /\ FrameworkUpdatesOnce]_vars

\* C12 amended: on a record whose id is well-formed, legacy Update calls
\* UpdateAgentStatus exactly when name, description or state differ, and
\* finishes with a Read unless that call failed; with a malformed id, or after
\* a failed update call, no Read follows. Framework Update makes exactly one
\* UpdateAgentStatus call.
C12_UpdateCalls ==
  [][/\ LegacyStep("Update") =>
          IF AgentStatusParseID(d.id).err
            THEN last'.calls = <<>>
            ELSE /\ Count(last'.calls, "UpdateAgentStatus")
                      = (IF MutableDiffers THEN 1 ELSE 0)
                 /\ IF Answered(last'.calls, "UpdateAgentStatus", "err")
                      THEN Len(last'.calls) = 1
                      ELSE /\ Count(last'.calls, "DescribeAgentStatus") = 1
                           /\ LastCallIs(last'.calls, "DescribeAgentStatus")
     /\ FrameworkUpdatesOnce]_vars

\* a legacy Update that sent the changed attributes and then read them back
C12_Witness ==
  /\ variant = "legacy" /\ last.op = "Update" /\ last.diags = <<>>
  /\ Len(last.calls) = 2
  /\ Answered(last.calls, "UpdateAgentStatus", "ok")
  /\ Answered(last.calls, "DescribeAgentStatus", "ok")
  /\ d.name = cfg.name /\ d.state = cfg.state

\* a legacy Update after a change of instance_id alone: a Read and nothing else
C12_WitnessNoCall ==
  /\ variant = "legacy" /\ last.op = "Update"
  /\ Len(last.calls) = 1 /\ Answered(last.calls, "DescribeAgentStatus", "ok")
  /\ d.instance_id # cfg.instance_id

\* C13: in both variants a call answered with success and an empty payload
\* makes the handler end with an error; the record is neither dropped nor
\* filled from the empty payload.
C13_EmptyPayloadIsError ==
  [][(steps' = steps + 1 /\ \E k \in DOMAIN last'.calls : last'.calls[k].result = "nil")
     => /\ last'.diags # <<>>
        /\ last'.op \in {"Read", "Update"} => (st' = st /\ d' = d)
        /\ last'.op = "Create" => (st' = Null /\ d'.arn = <<>>)]_vars

----------------------------------------------------------------------------
(* Properties of the identifier codec *)

\* C1: for every pair of non-empty, colon-free parts, parsing the key
\* instance_id ":" agent_status_id gives back exactly the pair and no error.
C1_RoundTrip ==
  (codec.pc = "roundtrip" /\ codec.i # <<>> /\ codec.a # <<>>
     /\ ~HasColon(codec.i) /\ ~HasColon(codec.a))
  => (~codec.out.err /\ codec.out.instanceID = codec.i
        /\ codec.out.agentStatusID = codec.a)

C1_Witness ==
  /\ codec.pc = "roundtrip" /\ Len(codec.i) = 2 /\ Len(codec.a) = 2
  /\ ~HasColon(codec.i) /\ ~HasColon(codec.a) /\ ~codec.out.err

\* position of the first colon of s, 0 when there is none
FirstColon(s) ==
  IF HasColon(s)
    THEN CHOOSE k \in 1..Len(s) : s[k] = Colon /\ \A j \in 1..(k - 1) : s[j] # Colon
    ELSE 0

\* C2: the parse fails exactly when the id has no colon or an empty text
\* before or after its first colon; otherwise it returns the text before and
\* the text after the first colon.
C2_ParseShape ==
  codec.pc \in {"decoded", "roundtrip"} =>
    LET id == codec.id
        k == FirstColon(id)
        bad == k = 0 \/ k = 1 \/ k = Len(id)
    IN /\ codec.out.err <=> bad
       /\ ~bad => /\ codec.out.instanceID = SubSeq(id, 1, k - 1)
                  /\ codec.out.agentStatusID = SubSeq(id, k + 1, Len(id))

C2_Witness ==
  /\ codec.pc = "decoded" /\ codec.id = <<"a", Colon, "b", Colon>>
  /\ ~codec.out.err /\ codec.out.agentStatusID = <<"b", Colon>>

C2_WitnessErr ==
  codec.pc = "decoded" /\ codec.id = <<"a", Colon>> /\ codec.out.err

----------------------------------------------------------------------------
(* Properties of the legacy handlers on imported identifiers *)

\* the id has no colon, or nothing before or after its first colon
Malformed(id) ==
  LET k == FirstColon(id) IN k = 0 \/ k = 1 \/ k = Len(id)

\* C14: legacy Read and legacy Update on a record with a malformed id return
\* the decode error, issue no remote call, and leave the record and the
\* service as they were.
C14_MalformedIdStops ==
  [][((LegacyStep("Read") \/ LegacyStep("Update")) /\ Malformed(d.id))
     => /\ last'.diags = <<"parse">>
        /\ last'.calls = <<>>
        /\ d' = d
        /\ remote' = remote]_vars

\* an Update on the imported id "i:" while the configuration asks for changes
C14_Witness ==
  /\ variant = "legacy" /\ last.op = "Update" /\ last.diags = <<"parse">>
  /\ d.id = <<"i", Colon>> /\ d.name # cfg.name

C14_WitnessRead ==
  /\ variant = "legacy" /\ last.op = "Read" /\ last.diags = <<"parse">>
  /\ d.id = <<Colon, "a">>

----------------------------------------------------------------------------
(* Identity of a tracked record *)

\* every Describe and Update call of the log addresses the pair (inst, id)
Addresses(calls, inst, id) ==
  \A k \in DOMAIN calls :
    calls[k].api \in {"UpdateAgentStatus", "DescribeAgentStatus"} =>
      (calls[k].InstanceId = inst /\ calls[k].AgentStatusId = id)

\* C15: Read and Update never change the instance_id or agent_status_id of a
\* record, and every Describe or Update call they issue addresses the pair
\* the record was created with.
C15_IdentityImmutable ==
  [][/\ ((FrameworkStep("Read") \/ FrameworkStep("Update")) /\ st # Null)
          => /\ Addresses(last'.calls, st.InstanceID, st.AgentStatusID)
             /\ st' # Null => /\ st'.InstanceID = st.InstanceID
                              /\ st'.AgentStatusID = st.AgentStatusID
     /\ ((LegacyStep("Read") \/ LegacyStep("Update")) /\ ~Malformed(d.id))
          => LET k == FirstColon(d.id)
                 inst == SubSeq(d.id, 1, k - 1)
                 id == SubSeq(d.id, k + 1, Len(d.id))
             IN /\ Addresses(last'.calls, inst, id)
                /\ d'.id # <<>> =>
                     /\ d'.id = d.id
                     /\ d.instance_id = inst => d'.instance_id = inst
                     /\ d.agent_status_id = id => d'.agent_status_id = id]_vars

----------------------------------------------------------------------------
(* Refresh *)

\* C16: after a successful framework Read the record's agent_status_id, arn,
\* name, description and state are those of the response; display_order is the
\* response's only when the response is ENABLED and carries one, and is the
\* prior record's otherwise.
C16_ReadRefreshes ==
  [][(FrameworkStep("Read") /\ Answered(last'.calls, "DescribeAgentStatus", "ok"))
     => \E n \in EntityNums :
          /\ Exists(remote, n)
          /\ AgentStatusIdOf(n) = st.AgentStatusID
          /\ last'.diags = <<>>
          /\ st'.AgentStatusID = AgentStatusIdOf(n)
          /\ st'.Arn = ArnOf(n)
          /\ st'.Name = remote[n].name
          /\ st'.Description = remote[n].description
          /\ st'.State = remote[n].state
          /\ st'.DisplayOrder =
               IF remote[n].state = Enabled /\ remote[n].displayOrder \in Orders
                 THEN remote[n].displayOrder ELSE st.DisplayOrder]_vars

\* a DISABLED entity without display order was read: the record keeps its 2
C16_Witness ==
  /\ variant = "framework" /\ last.op = "Read" /\ last.diags = <<>>
  /\ Answered(last.calls, "DescribeAgentStatus", "ok")
  /\ st.State = Disabled /\ st.DisplayOrder = 2
  /\ \E n \in EntityNums :
       /\ AgentStatusIdOf(n) = st.AgentStatusID
       /\ remote[n].displayOrder = NullOrder

\* an ENABLED entity was read after an adoption whose update failed: the
\* record's display order is the entity's 1, not the configured 2
C16_WitnessOverwritten ==
  /\ variant = "framework" /\ last.op = "Read" /\ last.diags = <<>>
  /\ Answered(last.calls, "DescribeAgentStatus", "ok")
  /\ st.State = Enabled /\ st.DisplayOrder = 1 /\ cfg.display_order = 2

----------------------------------------------------------------------------
(* Create, Delete, Create *)

NamedEntities(r) == {n \in EntityNums : NamedAsConfigured(r, n)}

\* C17: with import_on_exists true or unset and no failing list call, a
\* framework Create that follows a Create and a Delete of the same instance_id
\* and name issues no CreateAgentStatus call and records the agent_status_id
\* the first Create recorded; the service has as many entities of that name
\* in that instance after it as before it.
C17_CreateDeleteCreate ==
  [][(/\ FrameworkStep("Create")
      /\ earlier.phase = "deleted" /\ earlier.scanned
      /\ cfg.instance_id = earlier.instance /\ cfg.name = earlier.name
      /\ cfg.import_on_exists \in {"null", "true"}
      /\ ~Answered(last'.calls, "ListAgentStatuses", "err"))
     => /\ Count(last'.calls, "CreateAgentStatus") = 0
        /\ st'.AgentStatusID = earlier.id
        /\ Cardinality(NamedEntities(remote')) = Cardinality(NamedEntities(remote))]_vars

\* the second Create has adopted the entity the first one created
C17_Witness ==
  /\ variant = "framework" /\ last.op = "Create" /\ steps >= 3
  /\ earlier.phase = "created" /\ earlier.scanned
  /\ Count(last.calls, "CreateAgentStatus") = 0
  /\ Answered(last.calls, "UpdateAgentStatus", "ok")
  /\ st.AgentStatusID = AgentStatusIdOf(1) /\ nextId = 1
  /\ Cardinality(NamedEntities(remote)) = 1
====
